---- MODULE Spec2Model ----
(***************************************************************************)
(* Model of the elephantasm Python SDK: the Elephantasm HTTP client        *)
(* (client.py), its request and response models (types.py), its error      *)
(* hierarchy (exceptions.py), its settings (config.py) and the module-     *)
(* level functions with their lazy default client (functions.py).  The     *)
(* HTTP transport and the server are the environment: every request the    *)
(* client issues is answered by an arbitrary response drawn from           *)
(* Responses.                                                              *)
(*                                                                         *)
(* Specifications                                                          *)
(*   Spec        a caller constructs one client and calls its operations   *)
(*   ConfigSpec  the constructor, over every combination of arguments      *)
(*   PackSpec    the accessors of a MemoryPack                             *)
(*   ModuleSpec  the module-level functions and their default client       *)
(*   ScopeSpec   a client used as a context manager, and close()           *)
(*                                                                         *)
(* Conventions                                                             *)
(*   - Python None is the string None; a str argument is a TLA+ string.    *)
(*   - event-type strings are sequences of one-character strings, so that  *)
(*     case and separator conversions are computed character by character. *)
(*   - an optional number is a set with at most one element, and so is an  *)
(*     optional endpoint (a sequence of URL segments).                     *)
(*   - importance scores are counted in tenths (8 stands for 0.8).         *)
(*   - a JSON / Python value carried in an error message is a tagged       *)
(*     record [t |-> "str" | "num" | "null", v |-> text].                  *)
(***************************************************************************)
EXTENDS Integers, Sequences, FiniteSets, TLC

VARIABLES settings, client, pc, calls, lastCall, data, sent, response, outcome,
          default_client, constructed, pack, block, threads

vars == <<settings, client, pc, calls, lastCall, data, sent, response, outcome,
          default_client, constructed, pack, block, threads>>

\* Bound on the number of requests the transport answers in one behaviour.
MaxCalls == 2

----------------------------------------------------------------------------
\* Python values

None == "<None>"

\* bool(x) for x a str or None
Truthy(x) == x # None /\ x # ""

\* the Python expression `a or b`
Or(a, b) == IF Truthy(a) THEN a ELSE b

\* bool(x) and `a or b` for an optional number: None and 0 are falsy
TruthyNum(x) == x # {} /\ x # {0}
OrNum(a, b) == IF TruthyNum(a) THEN a ELSE b

\* bool(x) and `a or b` for an optional endpoint: None and "" are falsy
TruthySeq(x) == x # {} /\ x # {<<>>}
OrSeq(a, b) == IF TruthySeq(a) THEN a ELSE b

JStr(s) == [t |-> "str", v |-> s]
JNum(lit) == [t |-> "num", v |-> lit]
JNull == [t |-> "null", v |-> "null"]

\* str(x) of a decoded JSON value: a str is itself, None prints as "None",
\* a number prints as its literal
PyStr(j) ==
    CASE j.t = "str" -> j
      [] j.t = "null" -> JStr("None")
      [] j.t = "num" -> JStr(j.v)

----------------------------------------------------------------------------
\* Characters and event-type strings

Lowers == <<"a","b","c","d","e","f","g","h","i","j","k","l","m",
            "n","o","p","q","r","s","t","u","v","w","x","y","z">>
Uppers == <<"A","B","C","D","E","F","G","H","I","J","K","L","M",
            "N","O","P","Q","R","S","T","U","V","W","X","Y","Z">>

LowerChar(c) ==
    IF \E i \in DOMAIN Uppers : Uppers[i] = c
    THEN Lowers[CHOOSE i \in DOMAIN Uppers : Uppers[i] = c]
    ELSE c

UpperChar(c) ==
    IF \E i \in DOMAIN Lowers : Lowers[i] = c
    THEN Uppers[CHOOSE i \in DOMAIN Lowers : Lowers[i] = c]
    ELSE c

\* s.lower(), s.upper(), s.replace(a, b) for single characters a, b
StrLower(s) == [i \in DOMAIN s |-> LowerChar(s[i])]
StrUpper(s) == [i \in DOMAIN s |-> UpperChar(s[i])]
StrReplace(s, a, b) == [i \in DOMAIN s |-> IF s[i] = a THEN b ELSE s[i]]

\* each segment capitalised: tool.call -> Tool.Call
StrTitle(s) ==
    [i \in DOMAIN s |->
        IF i = 1 \/ s[i - 1] = "." \/ s[i - 1] = "_" THEN UpperChar(s[i]) ELSE s[i]]

\* class EventType(str, Enum): member name -> value
EventType ==
    [MESSAGE_IN  |-> <<"m","e","s","s","a","g","e",".","i","n">>,
     MESSAGE_OUT |-> <<"m","e","s","s","a","g","e",".","o","u","t">>,
     TOOL_CALL   |-> <<"t","o","o","l",".","c","a","l","l">>,
     TOOL_RESULT |-> <<"t","o","o","l",".","r","e","s","u","l","t">>,
     SYSTEM      |-> <<"s","y","s","t","e","m">>]

EventTypeNames == DOMAIN EventType

\* the five dotted lowercase wire values
WireValues == {EventType[n] : n \in EventTypeNames}

\* an event_type argument: an EventType member or a plain str
EnumArg(n) == [kind |-> "enum", name |-> n, s |-> <<>>]
StrArg(s) == [kind |-> "str", name |-> "", s |-> s]

\* the spellings of one wire value that a caller may pass
UpperSnake(w) == StrUpper(StrReplace(w, ".", "_"))
LowerSnake(w) == StrReplace(w, ".", "_")
MixedSnake(w) == StrTitle(StrReplace(w, ".", "_"))

Spellings(n) ==
    {EnumArg(n), StrArg(EventType[n]), StrArg(UpperSnake(EventType[n])),
     StrArg(MixedSnake(EventType[n])), StrArg(LowerSnake(EventType[n]))}

S_invalid == <<"i","n","v","a","l","i","d">>
S_invalid_type == S_invalid \o <<"_","t","y","p","e">>
S_tool_call_extra == UpperSnake(EventType.TOOL_CALL) \o <<"_","E","X","T","R","A">>
S_foobar == <<"f","o","o","b","a","r">>

InvalidSpellings ==
    {StrArg(<<>>), StrArg(S_invalid), StrArg(S_invalid_type),
     StrArg(S_tool_call_extra), StrArg(S_foobar)}

EventTypeArgs == (UNION {Spellings(n) : n \in EventTypeNames}) \cup InvalidSpellings

----------------------------------------------------------------------------
\* Anima ids

UuidA == "6f1c0a52-3b7e-4d1a-9c2f-0a1b2c3d4e5f"
UuidAUpper == "6F1C0A52-3B7E-4D1A-9C2F-0A1B2C3D4E5F"
UuidB == "0d9e8f7a-6b5c-4d3e-8f2a-1b0c9d8e7f6a"
NotAUuid == "not-a-uuid"

\* uuid.UUID(s): the strings it accepts, and str() of the UUID it builds
UUIDAccepts(s) == s \in {UuidA, UuidAUpper, UuidB}
UUID(s) == IF s = UuidAUpper THEN UuidA ELSE s

AnimaIdArgs == {None, "", UuidA, UuidAUpper, NotAUuid}

\* importance_score arguments, in tenths; {} is None
ScoreArgs == {{}, {-1}, {0}, {8}, {10}, {15}}

\* Field(ge=0.0, le=1.0), in tenths
ScoreMin == 0
ScoreMax == 10

----------------------------------------------------------------------------
\* HTTP responses (the environment)

StatusCodes == {200, 201, 400, 401, 404, 422, 429, 500, 503}

Body(json, text, has_detail, detail, shape) ==
    [json |-> json, text |-> text, has_detail |-> has_detail,
     detail |-> detail, shape |-> shape]

\* json: "invalid" (not parseable), "null" or "object";
\* shape: the model class whose required fields an object body carries.
\* The bodies a server may answer a request for a cls with.
Bodies(cls) ==
    {Body("invalid", "Bad Gateway", FALSE, JNull, "-"),
     Body("null", "null", FALSE, JNull, "-"),
     Body("object", "{}", FALSE, JNull, "-"),
     Body("object", "{\"detail\": \"Anima not found\"}", TRUE, JStr("Anima not found"), "-"),
     Body("object", "{\"detail\": 42}", TRUE, JNum("42"), "-"),
     Body("object", "{\"id\": ...}", FALSE, JNull, cls)}

Responses(cls) == [status_code : StatusCodes, body : Bodies(cls)]

NoResponse == [status_code |-> 0, body |-> Body("-", "", FALSE, JNull, "-")]

\* httpx.Response.is_success
is_success(r) == r.status_code >= 200 /\ r.status_code <= 299

----------------------------------------------------------------------------
\* Outcomes of an operation: a returned value or a raised exception

Raise(exc, message, status_code) ==
    [kind |-> "raise", exc |-> exc, message |-> message,
     status_code |-> status_code, value |-> "-"]

Return(value) ==
    [kind |-> "return", exc |-> "-", message |-> JStr(""),
     status_code |-> {}, value |-> value]

\* exceptions.py: each class with its direct base
Bases ==
    [ElephantasmError |-> "Exception",
     AuthenticationError |-> "ElephantasmError",
     NotFoundError |-> "ElephantasmError",
     RateLimitError |-> "ElephantasmError",
     ValidationError |-> "ElephantasmError",
     ServerError |-> "ElephantasmError"]

IsElephantasmError(exc) ==
    exc = "ElephantasmError" \/ (exc \in DOMAIN Bases /\ Bases[exc] = "ElephantasmError")

\* the constructors of exceptions.py: the subclasses fix their status code
ElephantasmError(message, status_code) == Raise("ElephantasmError", message, {status_code})
AuthenticationError(message) == Raise("AuthenticationError", message, {401})
NotFoundError(message) == Raise("NotFoundError", message, {404})
RateLimitError(message) == Raise("RateLimitError", message, {429})
ValidationError(message) == Raise("ValidationError", message, {422})
\* ServerError with the status code of a 503 answer
ServerError_503(message) == Raise("ServerError", message, {503})

ServerError(message) == Raise("ServerError", message, {500})

\* ErrorDetail that never reads the detail field
ErrorDetail_TextOnly(r) == JStr(r.body.text)

\* the message of a non-2xx response:
\*   try: detail = response.json().get("detail", response.text)
\*   except Exception: detail = response.text
\* .json() raises on an unparseable body, .get raises on a body that is no object
ErrorDetail(r) ==
    IF r.body.json = "object" /\ r.body.has_detail
    THEN r.body.detail
    ELSE JStr(r.body.text)

\* HandleResponse with `status > 500` for the server errors
HandleResponse_Above500(r) ==
    IF is_success(r)
    THEN IF r.body.json = "invalid"
         THEN Raise("JSONDecodeError", JStr("Expecting value"), {})
         ELSE Return("json")
    ELSE LET detail == IF r.body.json = "object" /\ r.body.has_detail
                       THEN r.body.detail
                       ELSE JStr(r.body.text)
             status == r.status_code
         IN  IF status = 401 THEN AuthenticationError(detail)
             ELSE IF status = 404 THEN NotFoundError(detail)
             ELSE IF status = 422 THEN ValidationError(PyStr(detail))
             ELSE IF status = 429 THEN RateLimitError(detail)
             ELSE IF status > 500 THEN ServerError(detail)
             ELSE ElephantasmError(detail, status)

\* Elephantasm._handle_response: Return("json") stands for `return response.json()`
HandleResponse(r) ==
    IF is_success(r)
    THEN IF r.body.json = "invalid"
         THEN Raise("JSONDecodeError", JStr("Expecting value"), {})
         ELSE Return("json")
    ELSE LET detail == ErrorDetail(r)
             status == r.status_code
         IN  IF status = 401 THEN AuthenticationError(detail)
             ELSE IF status = 404 THEN NotFoundError(detail)
             ELSE IF status = 422 THEN ValidationError(PyStr(detail))
             ELSE IF status = 429 THEN RateLimitError(detail)
             ELSE IF status >= 500 THEN ServerError(detail)
             ELSE ElephantasmError(detail, status)

\* cls(**result) for the response models Anima, Event and MemoryPack: ** needs a
\* mapping, and the mapping must carry the required fields of cls
ModelFromResult(cls, body) ==
    IF body.json # "object"
    THEN Raise("TypeError", JStr("argument after ** must be a mapping"), {})
    ELSE IF body.shape = cls
         THEN Return(cls)
         ELSE Raise("PydanticValidationError", JStr("Field required"), {})

----------------------------------------------------------------------------
\* Request models (types.py)

\* EventCreateValid with the upper bound of importance_score left out
EventCreateValid_NoUpperBound(anima_id, event_type, importance_score) ==
    /\ UUIDAccepts(anima_id)
    /\ \A x \in importance_score : x >= ScoreMin

\* EventCreate(...): pydantic validation of the fields the client fills in.
\* anima_id: UUID; event_type: str; importance_score: ge=0.0, le=1.0 or None.
EventCreateValid(anima_id, event_type, importance_score) ==
    /\ UUIDAccepts(anima_id)
    /\ \A x \in importance_score : x >= ScoreMin /\ x <= ScoreMax

\* the optional arguments session_id, role, author (str or None) and
\* occurred_at (an optional datetime) of extract, none of them given
NoExtras == [session_id |-> None, role |-> None, author |-> None, occurred_at |-> {}]

\* the fields of EventCreate that extract never fills in keep their default, None
EventCreate(anima_id, event_type, content, extras, meta, importance_score) ==
    [anima_id |-> UUID(anima_id), event_type |-> event_type, content |-> content,
     role |-> extras.role, author |-> extras.author, summary |-> None,
     occurred_at |-> extras.occurred_at, session_id |-> extras.session_id,
     meta |-> meta, source_uri |-> None, dedupe_key |-> None,
     importance_score |-> importance_score]

NoData ==
    [anima_id |-> None, event_type |-> <<>>, content |-> None,
     role |-> None, author |-> None, summary |-> None,
     occurred_at |-> {}, session_id |-> None,
     meta |-> None, source_uri |-> None, dedupe_key |-> None,
     importance_score |-> {}]

\* the fields of EventCreate by their type
RequiredFields == {"anima_id", "event_type", "content", "meta"}
OptionalStrFields == {"role", "author", "summary", "session_id", "source_uri", "dedupe_key"}

\* the JSON value of a field: a datetime as its ISO text, a number as itself
JsonOf(obj, k) ==
    CASE k = "occurred_at" ->
            IF obj[k] = {} THEN None ELSE (CHOOSE x \in obj[k] : TRUE).iso
      [] k = "importance_score" ->
            IF obj[k] = {} THEN None ELSE CHOOSE x \in obj[k] : TRUE
      [] OTHER -> obj[k]

\* model_dump with exclude_none left out: every field, None as null
model_dump_KeepNone(obj) == [k \in DOMAIN obj |-> JsonOf(obj, k)]

\* data.model_dump(mode="json", exclude_none=True): a key whose value is None
\* is left out of the mapping
model_dump(obj) ==
    LET keys == RequiredFields
                \cup {k \in OptionalStrFields : obj[k] # None}
                \cup {k \in {"occurred_at", "importance_score"} : obj[k] # {}}
    IN  [k \in keys |-> JsonOf(obj, k)]

----------------------------------------------------------------------------
\* Requests

Request(method, url, params, json) ==
    [method |-> method, url |-> url, params |-> params, json |-> json]

NoRequest == Request("-", <<>>, {}, <<>>)

\* an f-string path: the sequence of its parts
EventsUrl == <<"/events">>
AnimasUrl == <<"/animas">>
MemoryPackUrl(aid) == <<"/animas/", aid, "/memory-packs/latest">>

NoEventType == [kind |-> "-", name |-> "", s |-> <<>>]

\* the arguments of a call, kept for the properties
Call(op, event_type, anima_id, importance_score, query, preset) ==
    [op |-> op, event_type |-> event_type, anima_id |-> anima_id,
     importance_score |-> importance_score, query |-> query, preset |-> preset,
     api_key |-> None, endpoint |-> {}, timeout |-> {},
     description |-> None, meta |-> None, extras |-> NoExtras]

\* the arguments of a call of the constructor
InitCall(api_key, anima_id, endpoint, timeout) ==
    [Call("__init__", NoEventType, anima_id, {}, None, None)
        EXCEPT !.api_key = api_key, !.endpoint = endpoint, !.timeout = timeout]

Pending == [kind |-> "pending", exc |-> "-", message |-> JStr(""),
            status_code |-> {}, value |-> "-"]

\* an operation that raises before it reaches the transport
LocalFailure(exc) ==
    /\ outcome' = exc
    /\ sent' = NoRequest
    /\ response' = NoResponse
    /\ pc' = "idle"
    /\ UNCHANGED calls

\* self._client.get / self._client.post: the request leaves and the caller
\* blocks until the transport answers
Send(request) ==
    /\ calls' = calls + 1
    /\ sent' = request
    /\ response' = NoResponse
    /\ outcome' = Pending
    /\ pc' = "awaiting"

\* Receive that sends the request again after a 429 or a 5xx answer
Receive_Retry(r, result) ==
    IF (r.status_code = 429 \/ r.status_code >= 500) /\ calls < MaxCalls
    THEN /\ pc' = "awaiting"
         /\ calls' = calls + 1
         /\ response' = r
         /\ outcome' = Pending
         /\ UNCHANGED <<settings, client, lastCall, data, sent,
                        default_client, constructed, pack, block, threads>>
    ELSE /\ pc' = "idle"
         /\ response' = r
         /\ outcome' = result
         /\ UNCHANGED <<settings, client, calls, lastCall, data, sent,
                        default_client, constructed, pack, block, threads>>

\* the transport's answer r reaches the blocked operation, which ends with result
Receive(r, result) ==
    /\ pc' = "idle"
    /\ response' = r
    /\ outcome' = result
    /\ UNCHANGED <<settings, client, calls, lastCall, data, sent,
                   default_client, constructed, pack, block, threads>>

----------------------------------------------------------------------------
\* The client (client.py)

\* an endpoint is the sequence of its segments, a slash being a segment
DefaultEndpoint == <<"https://api.elephantasm.com">>
EnvEndpoint == <<"https://staging.elephantasm.com", "/">>

\* ElephantasmSettings.timeout: int = 30
DefaultTimeout == 30
EnvTimeout == 10

\* config.py: the settings read from the environment when the module is
\* imported: nothing set (the defaults of ElephantasmSettings), or every
\* ELEPHANTASM_ variable set
Environments ==
    {[api_key |-> None, anima_id |-> None,
      endpoint |-> DefaultEndpoint, timeout |-> DefaultTimeout],
     [api_key |-> "sk_env", anima_id |-> UuidB,
      endpoint |-> EnvEndpoint, timeout |-> EnvTimeout]}

\* s.rstrip(c) for a segment c
RECURSIVE RStrip(_, _)
RStrip(s, c) ==
    IF s # <<>> /\ s[Len(s)] = c THEN RStrip(SubSeq(s, 1, Len(s) - 1), c) ELSE s

\* the value of an optional that is not None
TheOne(x) == CHOOSE v \in x : TRUE

NoTransport == [base_url |-> <<>>, authorization |-> <<>>, timeout |-> 0]

NoClient ==
    [state |-> "none", id |-> 0, api_key |-> None, anima_id |-> None,
     endpoint |-> <<>>, timeout |-> 0, transport |-> NoTransport]

\* no MemoryPack at hand
NoPack == [counters |-> <<>>, content |-> <<>>]

\* the threads that call the module-level functions
NumThreads == 2
Threads == 1 .. NumThreads

\* a thread that has not called a function yet: pc is its position in
\* _get_client, fn the function it called, local the instance it holds
NoThread == [pc |-> "start", fn |-> "-", local |-> 0]
NoThreads == [t \in Threads |-> NoThread]

Init ==
    /\ settings \in Environments
    /\ client = NoClient
    /\ pc = "idle"
    /\ calls = 0
    /\ lastCall = Call("-", NoEventType, None, {}, None, None)
    /\ data = NoData
    /\ sent = NoRequest
    /\ response = NoResponse
    /\ outcome = Return("-")
    /\ default_client = 0
    /\ constructed = 0
    /\ pack = NoPack
    /\ block = "none"
    /\ threads = NoThreads

\* Elephantasm_init without the `if not self.api_key` check
Elephantasm_init_NoKeyCheck(api_key, anima_id, endpoint, timeout, id) ==
    LET self_api_key == Or(api_key, settings.api_key)
        self_endpoint == RStrip(TheOne(OrSeq(endpoint, {settings.endpoint})), "/")
        self_timeout == TheOne(OrNum(timeout, {settings.timeout}))
    IN  [state |-> "open", id |-> id, api_key |-> self_api_key,
         anima_id |-> Or(anima_id, settings.anima_id), endpoint |-> self_endpoint,
         timeout |-> self_timeout,
         transport |-> [base_url |-> self_endpoint \o <<"/api">>,
                        authorization |-> <<"Bearer ", self_api_key>>,
                        timeout |-> self_timeout]]

\* the body of Elephantasm.__init__ for the id-th instance: the instance it
\* leaves, or NoClient when it raises (the raise comes before httpx.Client(...))
Elephantasm_init(api_key, anima_id, endpoint, timeout, id) ==
    LET self_api_key == Or(api_key, settings.api_key)
        self_anima_id == Or(anima_id, settings.anima_id)
        self_endpoint == RStrip(TheOne(OrSeq(endpoint, {settings.endpoint})), "/")
        self_timeout == TheOne(OrNum(timeout, {settings.timeout}))
    IN  IF ~Truthy(self_api_key)
        THEN NoClient
        ELSE [state |-> "open", id |-> id, api_key |-> self_api_key,
              anima_id |-> self_anima_id, endpoint |-> self_endpoint,
              timeout |-> self_timeout,
              transport |-> [base_url |-> self_endpoint \o <<"/api">>,
                             authorization |-> <<"Bearer ", self_api_key>>,
                             timeout |-> self_timeout]]

ApiKeyRequired == Raise("ValueError", JStr("API key required"), {})

\* Elephantasm(...): the caller constructs a client
Elephantasm(api_key, anima_id, endpoint, timeout) ==
    /\ client.state = "none"
    /\ lastCall' = InitCall(api_key, anima_id, endpoint, timeout)
    /\ LET self == Elephantasm_init(api_key, anima_id, endpoint, timeout, constructed + 1)
       IN  IF self = NoClient
           THEN /\ outcome' = ApiKeyRequired
                /\ UNCHANGED <<client, constructed>>
           ELSE /\ client' = self
                /\ constructed' = constructed + 1
                /\ outcome' = Return("Elephantasm")
    /\ data' = NoData
    /\ sent' = NoRequest
    /\ response' = NoResponse
    /\ UNCHANGED <<settings, calls, pc, default_client, pack, block, threads>>

\* AnimaIdMissing with the check left out
AnimaIdMissing_Never(aid) == FALSE

\* `if not aid: raise ValueError("anima_id required ...")`
AnimaIdMissing(aid) == ~Truthy(aid)

AnimaIdRequired == Raise("ValueError", JStr("anima_id required"), {})

\* Aid that prefers the client's default to the argument
Aid_DefaultFirst(anima_id, self_anima_id) ==
    IF Truthy(self_anima_id) THEN self_anima_id ELSE anima_id

\* inject: `aid = str(anima_id) if anima_id else self.anima_id`
\* extract: `aid = anima_id if anima_id else self.anima_id`
\* (str() of a str is the str itself)
Aid(anima_id, self_anima_id) ==
    IF Truthy(anima_id) THEN anima_id ELSE self_anima_id

\* an operation that stored the resolved anima id as the client's default
SelfAfterCall_StoresAid(self, aid) == [self EXCEPT !.anima_id = aid]

\* the instance after create_anima, inject or extract has run on it: the
\* methods assign to no attribute of self (aid is a local variable)
SelfAfterCall(self, aid) == self

\* an operation of the client can be called: by the caller who holds the
\* client, or by a module-level function on the client _get_client() returned
Ready == client.state = "open" /\ pc \in {"idle", "got_client"} /\ calls < MaxCalls

\* AnimaCreate(...).model_dump(exclude_none=True)
AnimaCreateDump(name, description, meta) ==
    [name |-> name]
    @@ (IF description = None THEN <<>> ELSE [description |-> description])
    @@ (IF meta = None THEN <<>> ELSE [meta |-> meta])

\* Elephantasm.create_anima, up to the POST
create_anima(name, description, meta) ==
    /\ Ready
    /\ lastCall' = [Call("create_anima", NoEventType, None, {}, None, None)
                       EXCEPT !.description = description, !.meta = meta]
    /\ data' = NoData
    /\ Send(Request("POST", AnimasUrl, {}, AnimaCreateDump(name, description, meta)))
    /\ client' = SelfAfterCall(client, client.anima_id)
    /\ UNCHANGED <<settings, default_client, constructed, pack, block, threads>>

\* the end of an operation that maps a 2xx body to cls
ResultAs(cls, r) ==
    LET result == HandleResponse(r)
    IN  IF result.kind = "raise" THEN result ELSE ModelFromResult(cls, r.body)

\* Elephantasm.create_anima, from the response on
create_anima_return(r) ==
    /\ pc = "awaiting"
    /\ lastCall.op = "create_anima"
    /\ Receive(r, ResultAs("Anima", r))

\* Elephantasm.inject, up to the GET
inject(anima_id, query, preset) ==
    /\ Ready
    /\ lastCall' = Call("inject", NoEventType, anima_id, {}, query, preset)
    /\ LET aid == Aid(anima_id, client.anima_id)
           params == (IF Truthy(query) THEN {<<"query", query>>} ELSE {})
                     \cup (IF Truthy(preset) THEN {<<"preset", preset>>} ELSE {})
       IN  IF AnimaIdMissing(aid)
           THEN LocalFailure(AnimaIdRequired)
           ELSE Send(Request("GET", MemoryPackUrl(aid), params, <<>>))
    /\ data' = NoData
    /\ client' = SelfAfterCall(client, Aid(anima_id, client.anima_id))
    /\ UNCHANGED <<settings, default_client, constructed, pack, block, threads>>

\* InjectResult without the `if result is None` branch
InjectResult_NoNoneCheck(r) ==
    LET result == HandleResponse(r)
    IN  IF result.kind = "raise" THEN result
        ELSE ModelFromResult("MemoryPack", r.body)

\* inject's last lines: `if result is None: return None`, else MemoryPack(**result)
InjectResult(r) ==
    LET result == HandleResponse(r)
    IN  IF result.kind = "raise" THEN result
        ELSE IF r.body.json = "null" THEN Return("None")
        ELSE ModelFromResult("MemoryPack", r.body)

\* Elephantasm.inject, from the response on
inject_return(r) ==
    /\ pc = "awaiting"
    /\ lastCall.op = "inject"
    /\ Receive(r, InjectResult(r))

\* `event_type.value if isinstance(event_type, EventType) else event_type`
event_type_str(event_type) ==
    IF event_type.kind = "enum" THEN EventType[event_type.name] ELSE event_type.s

\* Elephantasm.extract, up to the POST
extract(event_type, content, anima_id, extras, meta, importance_score) ==
    /\ Ready
    /\ lastCall' = [Call("extract", event_type, anima_id, importance_score, None, None)
                       EXCEPT !.extras = extras, !.meta = meta]
    /\ LET aid == Aid(anima_id, client.anima_id)
           event_type_s == event_type_str(event_type)
       IN  IF AnimaIdMissing(aid)
           THEN LocalFailure(AnimaIdRequired) /\ data' = NoData
           ELSE IF ~UUIDAccepts(aid)
           THEN /\ LocalFailure(Raise("ValueError",
                                      JStr("badly formed hexadecimal UUID string"), {}))
                /\ data' = NoData
           ELSE IF ~EventCreateValid(aid, event_type_s, importance_score)
           THEN /\ LocalFailure(Raise("PydanticValidationError",
                                      JStr("validation error for EventCreate"), {}))
                /\ data' = NoData
           ELSE /\ data' = EventCreate(aid, event_type_s, content, extras,
                                       IF meta = None THEN "{}" ELSE meta,
                                       importance_score)
                /\ Send(Request("POST", EventsUrl, {}, model_dump(data')))
    /\ client' = SelfAfterCall(client, Aid(anima_id, client.anima_id))
    /\ UNCHANGED <<settings, default_client, constructed, pack, block, threads>>

\* Elephantasm.extract, from the response on
extract_return(r) ==
    /\ pc = "awaiting"
    /\ lastCall.op = "extract"
    /\ Receive(r, ResultAs("Event", r))

\* EventCreate(anima_id=..., event_type=..., content=...) built by the caller,
\* without a client
new_EventCreate(anima_id, event_type, content, importance_score) ==
    /\ client.state = "none"
    /\ pc = "idle"
    /\ lastCall' = Call("EventCreate", StrArg(event_type), anima_id, importance_score,
                        None, None)
    /\ IF ~EventCreateValid(anima_id, event_type, importance_score)
       THEN /\ data' = NoData
            /\ outcome' = Raise("PydanticValidationError",
                                JStr("validation error for EventCreate"), {})
       ELSE /\ data' = EventCreate(anima_id, event_type, content, NoExtras, "{}",
                                   importance_score)
            /\ outcome' = Return("EventCreate")
    /\ UNCHANGED <<settings, client, pc, calls, sent, response,
                   default_client, constructed, pack, block, threads>>

\* a timeout reported as the error of a 5xx response
TimeoutException_AsServerError == ServerError(JStr("timed out"))

\* httpx.TimeoutException, raised by self._client.get / .post when the server
\* has not answered within the timeout the transport was created with
TimeoutException == Raise("httpx.TimeoutException", JStr("timed out"), {})

\* the transport gives up on the request of the blocked operation: no
\* operation catches the exception, it ends the operation
transport_timeout ==
    /\ pc = "awaiting"
    /\ client.transport.timeout > 0
    /\ pc' = "idle"
    /\ response' = NoResponse
    /\ outcome' = TimeoutException
    /\ UNCHANGED <<settings, client, calls, lastCall, data, sent,
                   default_client, constructed, pack, block, threads>>

----------------------------------------------------------------------------
\* The arguments the operations are called with

ApiKeyArgs == {None, "sk_live"}
DefaultAnimaArgs == {None, UuidA}
QueryArgs == {None, "", "user preferences"}
PresetArgs == {None, "conversational"}
MetaArgs == {None, "{\"key\": \"value\"}"}
Content == "Hello!"

\* inject: every anima id without parameters, and every query and preset
\* with the default anima id
InjectArgs ==
    (AnimaIdArgs \X {None} \X {None}) \cup ({None} \X QueryArgs \X PresetArgs)

\* extract: every spelling of the event type with the default anima id; every
\* anima id; every score with a valid and an invalid event type and a present,
\* an absent and a malformed anima id; every meta; every choice of the
\* optional arguments, with and without a score
\* (an element is <<event_type, anima_id, meta, importance_score, extras>>)
OccurredAt == [iso |-> "2024-01-15T10:30:00+00:00"]

ExtrasArgs ==
    {NoExtras,
     [session_id |-> "session-1", role |-> "user", author |-> "alice",
      occurred_at |-> {OccurredAt}],
     [NoExtras EXCEPT !.role = ""],
     [NoExtras EXCEPT !.session_id = "session-1"],
     [NoExtras EXCEPT !.author = "alice"],
     [NoExtras EXCEPT !.occurred_at = {OccurredAt}]}

ExtractArgs ==
    (EventTypeArgs \X {None} \X {None} \X {{}} \X {NoExtras})
    \cup ({EnumArg("MESSAGE_IN")} \X AnimaIdArgs \X {None} \X {{}} \X {NoExtras})
    \cup ({EnumArg("MESSAGE_IN"), StrArg(S_invalid_type)}
          \X {None, UuidA, NotAUuid} \X {None} \X ScoreArgs \X {NoExtras})
    \cup ({EnumArg("MESSAGE_IN")} \X {None} \X MetaArgs \X {{}} \X {NoExtras})
    \cup ({EnumArg("MESSAGE_IN")} \X {None} \X {None} \X {{}, {0}} \X ExtrasArgs)

\* direct construction: every str spelling with a valid anima id and no score,
\* and the dotted form with every anima id and score
EventCreateArgs ==
    ({UuidA} \X {e.s : e \in {x \in EventTypeArgs : x.kind = "str"}} \X {{}})
    \cup ({UuidA, NotAUuid} \X {EventType.MESSAGE_IN} \X ScoreArgs)

Next ==
    \/ \E k \in ApiKeyArgs, a \in DefaultAnimaArgs : Elephantasm(k, a, {}, {})
    \/ \E d \in {None, "A test anima"}, m \in MetaArgs : create_anima("Test Anima", d, m)
    \/ \E r \in Responses("Anima") : create_anima_return(r)
    \/ \E x \in InjectArgs : inject(x[1], x[2], x[3])
    \/ \E r \in Responses("MemoryPack") : inject_return(r)
    \/ \E x \in ExtractArgs : extract(x[1], Content, x[2], x[5], x[3], x[4])
    \/ \E x \in EventCreateArgs : new_EventCreate(x[1], x[2], Content, x[3])
    \/ \E r \in Responses("Event") : extract_return(r)
    \/ transport_timeout

Spec == Init /\ [][Next]_vars

----------------------------------------------------------------------------
\* The constructor alone, over every combination of its arguments

ConfigApiKeyArgs == {None, "", "sk_live"}
ConfigAnimaArgs == {None, "", UuidA}
EndpointArgs ==
    {{}, {<<>>}, {<<"http://localhost:8000">>}, {<<"http://localhost:8000", "/">>}}
TimeoutArgs == {{}, {0}, {5}}

ConfigNext ==
    \E k \in ConfigApiKeyArgs, a \in ConfigAnimaArgs, e \in EndpointArgs, t \in TimeoutArgs :
        Elephantasm(k, a, e, t)

ConfigSpec == Init /\ [][ConfigNext]_vars

----------------------------------------------------------------------------
\* close() and the context manager (client.py)
\*
\* block is the caller's position relative to a `with Elephantasm(...) as
\* client:` block: "none" (no such block), "inside" or "left".  A client whose
\* httpx.Client has been closed has the state "closed".

\* Elephantasm.close: self._client.close()
Elephantasm_close(self) == [self EXCEPT !.state = "closed"]

\* Elephantasm.__enter__
Elephantasm_enter(self) == self

\* __exit__ that closes only when the block ended without an exception
Elephantasm_exit_NormalOnly(self, raised) ==
    IF raised THEN self ELSE Elephantasm_close(self)

\* Elephantasm.__exit__(*args): closes whatever args are; it returns None, so
\* an exception of the block propagates
Elephantasm_exit(self, raised) == Elephantasm_close(self)

\* `with Elephantasm(...) as client:` up to the first statement of the block;
\* a constructor that raises never enters the block
with_Elephantasm(api_key, anima_id, endpoint, timeout) ==
    /\ client.state = "none"
    /\ block = "none"
    /\ lastCall' = InitCall(api_key, anima_id, endpoint, timeout)
    /\ LET self == Elephantasm_init(api_key, anima_id, endpoint, timeout, constructed + 1)
       IN  IF self = NoClient
           THEN /\ outcome' = ApiKeyRequired
                /\ UNCHANGED <<client, constructed, block, threads>>
           ELSE /\ client' = Elephantasm_enter(self)
                /\ constructed' = constructed + 1
                /\ outcome' = Return("Elephantasm")
                /\ block' = "inside"
    /\ data' = NoData
    /\ sent' = NoRequest
    /\ response' = NoResponse
    /\ UNCHANGED <<settings, calls, pc, default_client, pack, threads>>

\* client.close(), called by the caller
close ==
    /\ client.state \in {"open", "closed"}
    /\ pc = "idle"
    /\ lastCall' = Call("close", NoEventType, None, {}, None, None)
    /\ client' = Elephantasm_close(client)
    /\ outcome' = Return("None")
    /\ data' = NoData
    /\ sent' = NoRequest
    /\ response' = NoResponse
    /\ UNCHANGED <<settings, calls, pc, default_client, constructed, pack, block, threads>>

CallerError == Raise("RuntimeError", JStr("raised by the caller's code"), {})

\* the with block is left: at its end (raised = FALSE), or by an exception
\* (raised = TRUE) - the error the last operation raised, or an error of the
\* caller's own code; __exit__ runs in both cases
with_exit(raised) ==
    /\ block = "inside"
    /\ pc = "idle"
    /\ lastCall' = Call("__exit__", NoEventType, None, {}, None, None)
    /\ client' = Elephantasm_exit(client, raised)
    /\ block' = "left"
    /\ outcome' = IF ~raised THEN Return("None")
                  ELSE IF outcome.kind = "raise" THEN outcome
                  ELSE CallerError
    /\ data' = NoData
    /\ sent' = NoRequest
    /\ response' = NoResponse
    /\ UNCHANGED <<settings, calls, pc, default_client, constructed, pack, threads>>

\* inside the block: every anima id, with the enum member as event type
ScopeExtractArgs == {EnumArg("MESSAGE_IN")} \X AnimaIdArgs \X {None} \X {{}} \X {NoExtras}

ScopeNext ==
    \/ \E k \in ApiKeyArgs, a \in DefaultAnimaArgs : with_Elephantasm(k, a, {}, {})
    \/ \E d \in {None, "A test anima"}, m \in MetaArgs : create_anima("Test Anima", d, m)
    \/ \E r \in Responses("Anima") : create_anima_return(r)
    \/ \E x \in InjectArgs : inject(x[1], x[2], x[3])
    \/ \E r \in Responses("MemoryPack") : inject_return(r)
    \/ \E x \in ScopeExtractArgs : extract(x[1], Content, x[2], x[5], x[3], x[4])
    \/ \E r \in Responses("Event") : extract_return(r)
    \/ close
    \/ \E raised \in BOOLEAN : with_exit(raised)

ScopeSpec == Init /\ [][ScopeNext]_vars

----------------------------------------------------------------------------
\* The module-level functions and their default client (functions.py)
\*
\* default_client is the global _default_client: 0 for None, else the id of an
\* instance.  A module-level function f(...) is `return _get_client().f(...)`:
\* _get_client() runs first, then the operation on the client it returned.

Functions == {"functions.create_anima", "functions.inject", "functions.extract"}

\* get_client that constructs a client on every call
get_client_AlwaysNew(fn) ==
    /\ fn \in Functions
    /\ pc = "idle"
    /\ calls < MaxCalls
    /\ lastCall' = Call(fn, NoEventType, None, {}, None, None)
    /\ LET self == Elephantasm_init(None, None, {}, {}, constructed + 1)
       IN  IF self = NoClient
           THEN /\ outcome' = ApiKeyRequired
                /\ pc' = "idle"
                /\ UNCHANGED <<client, default_client, constructed>>
           ELSE /\ client' = self
                /\ default_client' = self.id
                /\ constructed' = constructed + 1
                /\ outcome' = Pending
                /\ pc' = "got_client"
    /\ data' = NoData
    /\ sent' = NoRequest
    /\ response' = NoResponse
    /\ UNCHANGED <<settings, calls, pack, block, threads>>

\* _get_client(), called by the module-level function fn:
\*   if _default_client is None: _default_client = Elephantasm()
\*   return _default_client
\* A ValueError of Elephantasm() leaves _default_client None and ends fn.
get_client(fn) ==
    /\ fn \in Functions
    /\ pc = "idle"
    /\ calls < MaxCalls
    /\ lastCall' = Call(fn, NoEventType, None, {}, None, None)
    /\ IF default_client = 0
       THEN LET self == Elephantasm_init(None, None, {}, {}, constructed + 1)
            IN  IF self = NoClient
                THEN /\ outcome' = ApiKeyRequired
                     /\ pc' = "idle"
                     /\ UNCHANGED <<client, default_client, constructed>>
                ELSE /\ client' = self
                     /\ default_client' = self.id
                     /\ constructed' = constructed + 1
                     /\ outcome' = Pending
                     /\ pc' = "got_client"
       ELSE /\ outcome' = Pending
            /\ pc' = "got_client"
            /\ UNCHANGED <<client, default_client, constructed>>
    /\ data' = NoData
    /\ sent' = NoRequest
    /\ response' = NoResponse
    /\ UNCHANGED <<settings, calls, pack, block, threads>>

\* functions.create_anima: _get_client().create_anima(name, description, meta)
functions_create_anima(name, description, meta) ==
    /\ pc = "got_client"
    /\ lastCall.op = "functions.create_anima"
    /\ create_anima(name, description, meta)

\* functions.inject: _get_client().inject(anima_id, query, preset)
functions_inject(anima_id, query, preset) ==
    /\ pc = "got_client"
    /\ lastCall.op = "functions.inject"
    /\ inject(anima_id, query, preset)

\* functions.extract: _get_client().extract(event_type, content, anima_id, ...)
functions_extract(event_type, content, anima_id, extras, meta, importance_score) ==
    /\ pc = "got_client"
    /\ lastCall.op = "functions.extract"
    /\ extract(event_type, content, anima_id, extras, meta, importance_score)

ModuleNext ==
    \/ \E fn \in Functions : get_client(fn)
    \/ \E d \in {None, "A test anima"}, m \in MetaArgs :
          functions_create_anima("Test Anima", d, m)
    \/ \E r \in Responses("Anima") : create_anima_return(r)
    \/ \E x \in InjectArgs : functions_inject(x[1], x[2], x[3])
    \/ \E r \in Responses("MemoryPack") : inject_return(r)
    \/ \E x \in ExtractArgs : functions_extract(x[1], Content, x[2], x[5], x[3], x[4])
    \/ \E r \in Responses("Event") : extract_return(r)

ModuleSpec == Init /\ [][ModuleNext]_vars

----------------------------------------------------------------------------
\* The module-level functions called from several threads (functions.py).
\* _get_client takes no lock, so another thread can run between any two of
\* its steps: the test of the global, the call of Elephantasm(), the store
\* to the global, the load of the global for the return.

Unshared == <<settings, pc, calls, lastCall, data, sent, response, outcome, pack, block>>

\* thread t calls the module-level function fn, which calls _get_client()
thread_call(t, fn) ==
    /\ threads[t].pc = "start"
    /\ threads' = [threads EXCEPT ![t] = [pc |-> "check", fn |-> fn, local |-> 0]]
    /\ UNCHANGED <<client, default_client, constructed>>
    /\ UNCHANGED Unshared

\* `if _default_client is None:`
thread_check(t) ==
    /\ threads[t].pc = "check"
    /\ threads' = [threads EXCEPT ![t].pc =
                      IF default_client = 0 THEN "construct" ELSE "return"]
    /\ UNCHANGED <<client, default_client, constructed>>
    /\ UNCHANGED Unshared

\* `Elephantasm()`: the instance is built and held by the thread, or the
\* constructor raises ValueError and the function ends
thread_construct(t) ==
    /\ threads[t].pc = "construct"
    /\ LET self == Elephantasm_init(None, None, {}, {}, constructed + 1)
       IN  IF self = NoClient
           THEN /\ threads' = [threads EXCEPT ![t].pc = "raised"]
                /\ UNCHANGED constructed
           ELSE /\ threads' = [threads EXCEPT ![t].pc = "assign", ![t].local = self.id]
                /\ constructed' = constructed + 1
    /\ UNCHANGED <<client, default_client>>
    /\ UNCHANGED Unshared

\* `_default_client = <the instance>`: client is the instance the global
\* refers to
thread_assign(t) ==
    /\ threads[t].pc = "assign"
    /\ default_client' = threads[t].local
    /\ client' = Elephantasm_init(None, None, {}, {}, threads[t].local)
    /\ threads' = [threads EXCEPT ![t].pc = "return"]
    /\ UNCHANGED constructed
    /\ UNCHANGED Unshared

\* `return _default_client`: the global is read again; the function then
\* calls its operation on the instance returned
thread_return(t) ==
    /\ threads[t].pc = "return"
    /\ threads' = [threads EXCEPT ![t].pc = "using", ![t].local = default_client]
    /\ UNCHANGED <<client, default_client, constructed>>
    /\ UNCHANGED Unshared

ThreadNext ==
    \/ \E t \in Threads, fn \in Functions : thread_call(t, fn)
    \/ \E t \in Threads : thread_check(t)
    \/ \E t \in Threads : thread_construct(t)
    \/ \E t \in Threads : thread_assign(t)
    \/ \E t \in Threads : thread_return(t)

ThreadSpec == Init /\ [][ThreadNext]_vars

----------------------------------------------------------------------------
\* MemoryPack and its accessors (types.py)
\*
\* A pack is its counters and its content; content and every nested JSON
\* object are mappings from keys to values, a JSON array is a sequence.
\* Scores are counted in hundredths (90 stands for 0.9).  The result of an
\* accessor that returns an object or None is an optional.

\* d.get(k, default)
Get(d, k, default) == IF k \in DOMAIN d THEN d[k] ELSE default

\* bool(d) of a mapping
TruthyMap(d) == DOMAIN d # {}

Restrict(d, keys) == [k \in keys |-> d[k]]

\* ScoredMemory(**item): id and score are required
ScoredMemoryValid(item) == {"id", "score"} \subseteq DOMAIN item

ScoredMemory(item) ==
    [id |-> item.id, summary |-> Get(item, "summary", None), score |-> item.score,
     reason |-> Get(item, "reason", None), breakdown |-> Get(item, "breakdown", "{}"),
     similarity |-> IF "similarity" \in DOMAIN item THEN {item.similarity} ELSE {}]

\* ScoredKnowledge(**item): id, content, type and score are required
ScoredKnowledgeValid(item) == {"id", "content", "type", "score"} \subseteq DOMAIN item

ScoredKnowledge(item) ==
    [id |-> item.id, content |-> item.content, type |-> item.type, score |-> item.score,
     similarity |-> IF "similarity" \in DOMAIN item THEN {item.similarity} ELSE {}]

\* TemporalContext(**d): last_event_at, hours_ago and formatted are required
TemporalContextValid(d) == {"last_event_at", "hours_ago", "formatted"} \subseteq DOMAIN d

TemporalContext(d) ==
    [last_event_at |-> d.last_event_at, hours_ago |-> d.hours_ago,
     memory_summary |-> Get(d, "memory_summary", None), formatted |-> d.formatted]

\* IdentityContext(**d): every field is optional
IdentityContext(d) ==
    [personality_type |-> Get(d, "personality_type", None),
     communication_style |-> Get(d, "communication_style", None),
     self_reflection |-> Get(d, "self_reflection", None),
     prose |-> Get(d, "prose", None)]

FieldRequired == Raise("PydanticValidationError", JStr("Field required"), {})

\* [ScoredMemory(**item) for item in items]
ScoredMemories(items) ==
    IF \A i \in DOMAIN items : ScoredMemoryValid(items[i])
    THEN Return([i \in DOMAIN items |-> ScoredMemory(items[i])])
    ELSE FieldRequired

\* [ScoredKnowledge(**item) for item in items]
ScoredKnowledges(items) ==
    IF \A i \in DOMAIN items : ScoredKnowledgeValid(items[i])
    THEN Return([i \in DOMAIN items |-> ScoredKnowledge(items[i])])
    ELSE FieldRequired

\* MemoryPack.as_prompt
as_prompt(self) ==
    IF ~TruthyMap(self.content) THEN Return("")
    ELSE Return(Get(self.content, "context", ""))

\* identity that believes the has_identity counter
identity_ByCounter(self) ==
    IF self.counters.has_identity /\ "identity" \in DOMAIN self.content
    THEN Return({IdentityContext(self.content.identity)})
    ELSE Return({})

\* MemoryPack.identity: `identity_data = self.content.get("identity")`, then
\* `if identity_data:`
identity(self) ==
    IF ~TruthyMap(self.content) THEN Return({})
    ELSE IF "identity" \in DOMAIN self.content /\ TruthyMap(self.content.identity)
         THEN Return({IdentityContext(self.content.identity)})
         ELSE Return({})

\* session_memories cut to the declared session_memory_count
session_memories_ByCount(self) ==
    IF ~TruthyMap(self.content) THEN Return(<<>>)
    ELSE LET items == Get(self.content, "session_memories", <<>>)
             n == self.counters.session_memory_count
         IN  ScoredMemories(SubSeq(items, 1, IF n < Len(items) THEN n ELSE Len(items)))

\* MemoryPack.session_memories
session_memories(self) ==
    IF ~TruthyMap(self.content) THEN Return(<<>>)
    ELSE ScoredMemories(Get(self.content, "session_memories", <<>>))

\* knowledge with `self.content["knowledge"]` for the .get
knowledge_NoDefault(self) ==
    IF ~TruthyMap(self.content) THEN Return(<<>>)
    ELSE IF "knowledge" \notin DOMAIN self.content
         THEN Raise("KeyError", JStr("knowledge"), {})
         ELSE ScoredKnowledges(self.content.knowledge)

\* MemoryPack.knowledge
knowledge(self) ==
    IF ~TruthyMap(self.content) THEN Return(<<>>)
    ELSE ScoredKnowledges(Get(self.content, "knowledge", <<>>))

\* MemoryPack.long_term_memories
long_term_memories(self) ==
    IF ~TruthyMap(self.content) THEN Return(<<>>)
    ELSE ScoredMemories(Get(self.content, "long_term_memories", <<>>))

\* MemoryPack.temporal_context
temporal_context(self) ==
    IF ~TruthyMap(self.content) THEN Return({})
    ELSE IF "temporal_context" \in DOMAIN self.content
            /\ TruthyMap(self.content.temporal_context)
         THEN IF TemporalContextValid(self.content.temporal_context)
              THEN Return({TemporalContext(self.content.temporal_context)})
              ELSE FieldRequired
         ELSE Return({})

\* the caller reads an accessor of the pack at hand
Read(accessor, result) ==
    /\ pack # NoPack
    /\ lastCall' = Call(accessor, NoEventType, None, {}, None, None)
    /\ outcome' = result
    /\ UNCHANGED <<settings, client, pc, calls, data, sent, response,
                   default_client, constructed, pack, block, threads>>

read_as_prompt == Read("as_prompt", as_prompt(pack))
read_identity == Read("identity", identity(pack))
read_session_memories == Read("session_memories", session_memories(pack))
read_knowledge == Read("knowledge", knowledge(pack))
read_long_term_memories == Read("long_term_memories", long_term_memories(pack))
read_temporal_context == Read("temporal_context", temporal_context(pack))

\* tests/conftest.py, mock_memory_pack: the items of the fixture, and more
Memory1 ==
    [id |-> "m1", summary |-> "User asked about weather", score |-> 90,
     reason |-> "Recent and relevant", breakdown |-> "{\"recency\": 0.95}"]
Memory2 ==
    [id |-> "m2", summary |-> "User works in tech", score |-> 75,
     reason |-> "Background context", breakdown |-> "{\"importance\": 0.8}",
     similarity |-> 65]
MemoryBare == [id |-> "m3", score |-> 40]
MemoryNoScore == [id |-> "m4", summary |-> "No score"]
Knowledge1 ==
    [id |-> "k1", content |-> "User prefers concise responses", type |-> "preference",
     score |-> 85, similarity |-> 78]
Knowledge2 == [id |-> "k2", content |-> "User is in Berlin", type |-> "fact", score |-> 60]

FixtureContent ==
    [context |-> "You have memories of past conversations with this user.",
     identity |-> [personality_type |-> "INTJ", communication_style |-> "direct",
                   self_reflection |-> "{\"core_values\": [...]}",
                   prose |-> "You are a thoughtful assistant."],
     session_memories |-> <<Memory1>>,
     knowledge |-> <<Knowledge1>>,
     long_term_memories |-> <<Memory2>>,
     temporal_context |-> [last_event_at |-> "now", hours_ago |-> 25,
                           memory_summary |-> "discussing project plans",
                           formatted |-> "Your last conversation was 2.5 hours ago."]]

SectionKeys == DOMAIN FixtureContent

MemoryLists ==
    {<<>>, <<Memory1, Memory2>>, <<Memory2, Memory1>>, <<Memory1, Memory1>>,
     <<MemoryBare, Memory2, Memory1>>, <<Memory1, MemoryNoScore>>}

\* the fixture's content with every subset of its sections, with other
\* arrays, and with empty or partial nested objects
Contents ==
    {Restrict(FixtureContent, keys) : keys \in SUBSET SectionKeys}
    \cup {[FixtureContent EXCEPT !.session_memories = l] : l \in MemoryLists}
    \cup {[FixtureContent EXCEPT !.long_term_memories = l] : l \in MemoryLists}
    \cup {[FixtureContent EXCEPT !.knowledge = l] :
              l \in {<<>>, <<Knowledge2, Knowledge1>>, <<Knowledge1, MemoryBare>>}}
    \cup {[FixtureContent EXCEPT !.identity = d] :
              d \in {<<>>, [prose |-> "You are a thoughtful assistant."]}}
    \cup {[FixtureContent EXCEPT !.temporal_context = d] :
              d \in {<<>>, [formatted |-> "Your last conversation was 2.5 hours ago."]}}

\* the counters of the fixture, the defaults of MemoryPack, and counters that
\* understate
CounterSets ==
    {[session_memory_count |-> 2, knowledge_count |-> 3, long_term_memory_count |-> 1,
      has_identity |-> TRUE],
     [session_memory_count |-> 0, knowledge_count |-> 0, long_term_memory_count |-> 0,
      has_identity |-> FALSE],
     [session_memory_count |-> 1, knowledge_count |-> 1, long_term_memory_count |-> 0,
      has_identity |-> FALSE]}

Packs == [counters : CounterSets, content : Contents]

\* the caller holds a MemoryPack
PackInit ==
    /\ settings \in Environments
    /\ client = NoClient
    /\ pc = "idle"
    /\ calls = 0
    /\ lastCall = Call("-", NoEventType, None, {}, None, None)
    /\ data = NoData
    /\ sent = NoRequest
    /\ response = NoResponse
    /\ outcome = Return("-")
    /\ default_client = 0
    /\ constructed = 0
    /\ pack \in Packs
    /\ block = "none"
    /\ threads = NoThreads

PackNext ==
    \/ read_as_prompt
    \/ read_identity
    \/ read_session_memories
    \/ read_knowledge
    \/ read_long_term_memories
    \/ read_temporal_context

PackSpec == PackInit /\ [][PackNext]_vars

----------------------------------------------------------------------------
\* Properties

\* the spelling a string is canonicalised to: lower case, underscores as dots
Canonical(s) == StrReplace(StrLower(s), "_", ".")

HasCanonicalMapping(e) == e.kind = "enum" \/ Canonical(e.s) \in WireValues

\* the anima id a call works with: its argument, else the client's default
EffectiveAnimaId(call) ==
    IF Truthy(call.anima_id) THEN call.anima_id ELSE client.anima_id

ScoreInRange(s) == \A x \in s : x >= 0 /\ x <= 10

\* a step in which an operation op of the client is called
IsCallOf(ops) == pc = "idle" /\ lastCall'.op \in ops

\* the last operation has ended with the transport's answer
Answered == pc = "idle" /\ response # NoResponse

NonSuccess == response.status_code < 200 \/ response.status_code > 299

InvalidEventTypeError == Raise("ValueError", JStr("Invalid event_type"), {})

\* C1: every spelling of a canonical event type (the enum member, the dotted
\* string, the upper-snake-case name, the mixed-case and the lower-case
\* underscore variants) that extract resolves gives the dotted wire string.
C1_SpellingsResolveToWire ==
    \A n \in EventTypeNames :
        (lastCall.op = "extract" /\ lastCall.event_type \in Spellings(n) /\ data # NoData)
            => data.event_type = EventType[n]

\* C2: an event-type string that matches no wire value after lower-casing and
\* underscore-to-dot replacement is not resolved: the call fails with the
\* invalid-event-type error and no event is built from it.
C2_UnknownSpellingFails ==
    (/\ lastCall.op = "extract"
     /\ ~HasCanonicalMapping(lastCall.event_type)
     /\ UUIDAccepts(EffectiveAnimaId(lastCall))
     /\ ScoreInRange(lastCall.importance_score))
        => (outcome = InvalidEventTypeError /\ data = NoData)

\* C3: a call of extract with an event type that has no canonical mapping
\* raises and leaves the transport's call count as it was.
C3_InvalidTypeNoRequest ==
    [][(IsCallOf({"extract"}) /\ ~HasCanonicalMapping(lastCall'.event_type))
          => (calls' = calls /\ outcome'.kind = "raise")]_vars

\* C4: every transmitted POST /events carries one of the five dotted wire values.
C4_WireIsDotted ==
    (sent.method = "POST" /\ sent.url = EventsUrl) => sent.json.event_type \in WireValues

\* C5: a hand-built EventCreate is accepted exactly when its event_type is one
\* of the five dotted wire values, and then stores it unchanged.
C5_EventCreateValidates ==
    (/\ lastCall.op = "EventCreate"
     /\ UUIDAccepts(lastCall.anima_id)
     /\ ScoreInRange(lastCall.importance_score))
        => /\ (outcome.kind = "return") <=> (lastCall.event_type.s \in WireValues)
           /\ (outcome.kind = "return") => (data.event_type = lastCall.event_type.s)

\* C6: with no anima_id argument and no client default, inject and extract
\* raise the "anima_id required" error and issue no request.
C6_AnimaIdRequired ==
    [][(/\ IsCallOf({"inject", "extract"})
        /\ ~Truthy(lastCall'.anima_id)
        /\ ~Truthy(client.anima_id))
          => /\ outcome' = Raise("ValueError", JStr("anima_id required"), {})
             /\ calls' = calls
             /\ sent' = NoRequest
             /\ pc' = "idle"]_vars

C6_Witness ==
    /\ client.state = "open"
    /\ lastCall.op \in {"inject", "extract"}
    /\ ~Truthy(lastCall.anima_id)
    /\ ~Truthy(client.anima_id)
    /\ outcome.kind = "raise"
    /\ calls = 0

\* the error class of a status code
KindOfStatus(status) ==
    CASE status = 401 -> "AuthenticationError"
      [] status = 404 -> "NotFoundError"
      [] status = 422 -> "ValidationError"
      [] status = 429 -> "RateLimitError"
      [] status >= 500 -> "ServerError"
      [] OTHER -> "ElephantasmError"

\* C7: a non-2xx response makes the operation raise the error of its status
\* code, whatever the body, and that error is an ElephantasmError.
C7_ErrorByStatus ==
    (Answered /\ NonSuccess)
        => /\ outcome.kind = "raise"
           /\ outcome.exc = KindOfStatus(response.status_code)
           /\ IsElephantasmError(outcome.exc)

C7_Witness ==
    /\ Answered
    /\ response.status_code = 503
    /\ response.body.json = "invalid"
    /\ outcome.exc = "ServerError"

\* C8: inject returns None exactly when the answer is 2xx with a JSON null
\* body; a 404 raises NotFoundError.
C8_NoneIffNullSuccess ==
    (Answered /\ lastCall.op = "inject")
        => /\ (outcome = Return("None")) <=> (~NonSuccess /\ response.body.json = "null")
           /\ (response.status_code = 404) => (outcome.exc = "NotFoundError")

C8_Witness ==
    /\ Answered
    /\ lastCall.op = "inject"
    /\ response.status_code = 200
    /\ response.body.json = "null"
    /\ outcome = Return("None")

HasDetail == response.body.json = "object" /\ response.body.has_detail

\* C9 as stated: the message of the error raised for a non-2xx response is the
\* body's detail field when there is one, and the raw response text otherwise.
C9_MessageIsDetail ==
    (Answered /\ NonSuccess)
        => outcome.message = (IF HasDetail THEN response.body.detail
                              ELSE JStr(response.body.text))

\* C9 amended: the message is the body's detail field when there is one (as
\* its str() when the status is 422), and the raw response text otherwise.
C9_MessageIsDetailOrItsStr ==
    (Answered /\ NonSuccess)
        => outcome.message =
              (IF ~HasDetail THEN JStr(response.body.text)
               ELSE IF response.status_code = 422
                    THEN (IF response.body.detail.t = "str" THEN response.body.detail
                          ELSE JStr(response.body.detail.v))
                    ELSE response.body.detail)

C9_Witness ==
    /\ Answered
    /\ lastCall.op = "inject"
    /\ response.status_code = 404
    /\ response.body.detail = JStr("Anima not found")
    /\ outcome = Raise("NotFoundError", JStr("Anima not found"), {404})

\* C10: extract with an importance_score outside [0.0, 1.0] fails locally and
\* issues no request; a score inside the interval, bounds included, is
\* accepted and sent unchanged.
C10_ScoreRange ==
    [][IsCallOf({"extract"}) =>
        LET score == lastCall'.importance_score
        IN  /\ ~ScoreInRange(score)
                => (calls' = calls /\ sent' = NoRequest /\ outcome'.kind = "raise")
            /\ (/\ score # {}
                /\ ScoreInRange(score)
                /\ HasCanonicalMapping(lastCall'.event_type)
                /\ UUIDAccepts(EffectiveAnimaId(lastCall')))
                => /\ calls' = calls + 1
                   /\ sent'.url = EventsUrl
                   /\ "importance_score" \in DOMAIN sent'.json
                   /\ score = {sent'.json.importance_score}]_vars

C10_Witness ==
    /\ lastCall.op = "extract"
    /\ lastCall.importance_score = {0}
    /\ sent.url = EventsUrl
    /\ "importance_score" \in DOMAIN sent.json
    /\ sent.json.importance_score = 0

\* the anima id a request is addressed to: the id in the path of a GET of the
\* latest memory pack, the anima_id of the body of a POST /events
Addressee(request) ==
    IF request.method = "GET" THEN request.url[2] ELSE request.json.anima_id

C12_ExtractResolvesAsInject ==
    [][(/\ IsCallOf({"extract"})
        /\ lastCall.op = "inject"
        /\ lastCall'.anima_id = lastCall.anima_id
        /\ ScoreInRange(lastCall'.importance_score))
          => /\ (sent' = NoRequest) <=> (sent = NoRequest)
             /\ (sent' # NoRequest /\ sent # NoRequest)
                    => UUID(Addressee(sent')) = UUID(Addressee(sent))]_vars

Operations == {"create_anima", "inject", "extract"}

\* the errors of local validation and configuration
LocalErrors == {"ValueError", "PydanticValidationError"}

\* the model class an operation maps a 2xx body to
ResultClass(op) ==
    CASE op = "create_anima" -> "Anima"
      [] op = "inject" -> "MemoryPack"
      [] op = "extract" -> "Event"

\* a 2xx answer that is no result of the operation: not parseable, null where
\* the operation has no "absent" result, or an object without the fields of
\* the result class
MalformedSuccess ==
    /\ ~NonSuccess
    /\ \/ response.body.json = "invalid"
       \/ response.body.json = "null" /\ lastCall.op # "inject"
       \/ response.body.json = "object" /\ response.body.shape # ResultClass(lastCall.op)

\* C13: every failure of create_anima, inject or extract is a raised typed
\* error: a local validation or configuration error when no request was
\* answered, an ElephantasmError with a message and a status code when one
\* was; an error status and a 2xx answer with a null or malformed body both
\* raise.
C13_FailuresAreTypedErrors ==
    (pc = "idle" /\ lastCall.op \in Operations)
        => /\ (outcome.kind = "raise" /\ response = NoResponse)
                  => outcome.exc \in LocalErrors
           /\ (outcome.kind = "raise" /\ response # NoResponse)
                  => /\ IsElephantasmError(outcome.exc)
                     /\ outcome.status_code # {}
           /\ (response # NoResponse /\ (NonSuccess \/ MalformedSuccess))
                  => outcome.kind = "raise"

\* C14: a call of create_anima, inject or extract either fails locally with
\* no request, or issues exactly one request and waits for its answer; the
\* answer, whatever its status (429 and 5xx included), or the transport's
\* timeout ends the call with no further request, and the result of a call
\* comes from the answer to its own request.
C14_OneRequestPerCall ==
    [][/\ IsCallOf(Operations)
            => \/ /\ outcome'.kind = "raise"
                  /\ calls' = calls
                  /\ sent' = NoRequest
                  /\ pc' = "idle"
               \/ /\ calls' = calls + 1
                  /\ sent' # NoRequest
                  /\ response' = NoResponse
                  /\ outcome' = Pending
                  /\ pc' = "awaiting"
       /\ pc = "awaiting"
            => /\ calls' = calls
               /\ sent' = sent
               /\ pc' = "idle"
               /\ response' = NoResponse => outcome' = TimeoutException
               /\ outcome'.kind # "pending"]_vars

C14_Witness ==
    /\ Answered
    /\ response.status_code = 429
    /\ outcome.exc = "RateLimitError"
    /\ calls = 1

\* an API key, from the argument of the last constructor call or the environment
KeyAvailable ==
    \/ lastCall.api_key # None /\ lastCall.api_key # ""
    \/ settings.api_key # None /\ settings.api_key # ""

\* C15: constructing a client raises the "API key required" error exactly
\* when neither the api_key argument nor the environment gives a key, and
\* then there is no client and no transport; with a key the construction
\* returns a client with its transport.
C15_ApiKeyRequired ==
    lastCall.op = "__init__"
        => IF KeyAvailable
           THEN /\ outcome = Return("Elephantasm")
                /\ client.state = "open"
                /\ client.transport # NoTransport
           ELSE /\ outcome = Raise("ValueError", JStr("API key required"), {})
                /\ client.state = "none"
                /\ client.transport = NoTransport
                /\ constructed = 0

C15_Witness ==
    /\ lastCall.op = "__init__"
    /\ lastCall.api_key = ""
    /\ settings.api_key = None
    /\ outcome.kind = "raise"
    /\ client.transport = NoTransport

\* C16: a value passed to the constructor for api_key, anima_id, endpoint or
\* timeout is the value of the client (the endpoint up to trailing slashes),
\* and the value of the settings is used only when the argument is None.
C16_ExplicitArgumentWins ==
    (lastCall.op = "__init__" /\ outcome.kind = "return")
        => /\ client.api_key =
                 (IF lastCall.api_key # None THEN lastCall.api_key ELSE settings.api_key)
           /\ client.anima_id =
                 (IF lastCall.anima_id # None THEN lastCall.anima_id ELSE settings.anima_id)
           /\ client.endpoint =
                 RStrip(IF lastCall.endpoint # {} THEN TheOne(lastCall.endpoint)
                        ELSE settings.endpoint, "/")
           /\ client.timeout =
                 (IF lastCall.timeout # {} THEN TheOne(lastCall.timeout)
                  ELSE settings.timeout)
           /\ client.transport.timeout = client.timeout
           /\ client.transport.base_url = client.endpoint \o <<"/api">>
           /\ client.transport.authorization = <<"Bearer ", client.api_key>>

Accessors ==
    {"as_prompt", "identity", "session_memories", "knowledge", "long_term_memories",
     "temporal_context"}

ListAccessors == {"session_memories", "knowledge", "long_term_memories"}

\* the section of content an accessor reads
SectionOf(accessor) == IF accessor = "as_prompt" THEN "context" ELSE accessor

\* what reading the accessor of the pack q gives
ResultOf(accessor, q) ==
    CASE accessor = "as_prompt" -> as_prompt(q)
      [] accessor = "identity" -> identity(q)
      [] accessor = "session_memories" -> session_memories(q)
      [] accessor = "knowledge" -> knowledge(q)
      [] accessor = "long_term_memories" -> long_term_memories(q)
      [] accessor = "temporal_context" -> temporal_context(q)

\* C17: what an accessor of a pack gives is what the same accessor gives for
\* every pack with the same content, whatever its counters; identity is
\* absent when content has no identity section, has_identity true or not.
C17_AccessorsReadContentOnly ==
    lastCall.op \in Accessors
        => /\ \A q \in Packs :
                  q.content = pack.content => ResultOf(lastCall.op, q) = outcome
           /\ (lastCall.op = "identity" /\ "identity" \notin DOMAIN pack.content)
                  => outcome = Return({})

C17_Witness ==
    /\ lastCall.op = "identity"
    /\ pack.counters.has_identity
    /\ "identity" \notin DOMAIN pack.content
    /\ "context" \in DOMAIN pack.content
    /\ outcome = Return({})

\* C18: an accessor whose section is missing from content gives its default
\* and does not raise: the empty list for session_memories, knowledge and
\* long_term_memories, absent for identity and temporal_context, the empty
\* string for as_prompt; so for the empty content.
C18_MissingSectionsGiveDefaults ==
    (lastCall.op \in Accessors /\ SectionOf(lastCall.op) \notin DOMAIN pack.content)
        => /\ outcome.kind = "return"
           /\ lastCall.op \in ListAccessors => outcome.value = <<>>
           /\ lastCall.op \in {"identity", "temporal_context"} => outcome.value = {}
           /\ lastCall.op = "as_prompt" => outcome.value = ""

C18_Witness ==
    /\ lastCall.op = "knowledge"
    /\ DOMAIN pack.content = {"context", "identity"}
    /\ outcome = Return(<<>>)

\* every element of the array carries the required fields of its item class
WellFormed(accessor, items) ==
    \A i \in DOMAIN items :
        IF accessor = "knowledge" THEN ScoredKnowledgeValid(items[i])
        ELSE ScoredMemoryValid(items[i])

\* C19: session_memories, knowledge and long_term_memories give one item per
\* element of their content array (of elements that carry the required
\* fields), in the array's order, each with the id and the score of its
\* element, whatever the counters declare.
C19_OneItemPerElement ==
    (/\ lastCall.op \in ListAccessors
     /\ lastCall.op \in DOMAIN pack.content
     /\ WellFormed(lastCall.op, pack.content[lastCall.op]))
        => LET items == pack.content[lastCall.op]
           IN  /\ outcome.kind = "return"
               /\ Len(outcome.value) = Len(items)
               /\ \A i \in DOMAIN items :
                      /\ outcome.value[i].id = items[i].id
                      /\ outcome.value[i].score = items[i].score

\* the fixture: session_memory_count 2, one session memory scored 0.9
C19_Witness ==
    /\ lastCall.op = "session_memories"
    /\ pack.counters.session_memory_count = 2
    /\ pack.content = FixtureContent
    /\ outcome.kind = "return"
    /\ Len(outcome.value) = 1
    /\ outcome.value[1].score = 90

\* C20: the module-level functions share one lazily created default client:
\* none exists before the first call; the first call that can construct one
\* does; every call, in progress or ended in an operation of the client, works
\* on that first instance; never are two default clients constructed.
C20_OneDefaultClient ==
    /\ constructed <= 1
    /\ default_client = constructed
    /\ (pc # "idle" \/ lastCall.op \in Operations)
          => (default_client = 1 /\ client.state = "open" /\ client.id = default_client)
    /\ lastCall.op = "-" => default_client = 0

C20_Witness ==
    /\ lastCall.op = "inject"
    /\ pc = "idle"
    /\ calls = 2
    /\ outcome = Return("MemoryPack")
    /\ constructed = 1
    /\ client.id = 1

\* C21: once a `with Elephantasm(...)` block has been left, at its end or by
\* an exception raised inside it by an operation or by the caller's code, the
\* client's transport is closed, as it is after close(); the exception that
\* ended the block still reaches the caller.
C21_ExitCloses ==
    /\ block = "left" => client.state = "closed"
    /\ lastCall.op = "close" => client.state = "closed"
    /\ (block = "left" /\ lastCall.op = "__exit__")
          => client = Elephantasm_close(client)

C21_Witness ==
    /\ block = "left"
    /\ lastCall.op = "__exit__"
    /\ outcome.exc = "NotFoundError"
    /\ client.state = "closed"

\* the last operation has ended because the transport timed out
TimedOut ==
    /\ pc = "idle"
    /\ lastCall.op \in Operations
    /\ sent # NoRequest
    /\ response = NoResponse

\* C22: an operation whose request is not answered within the timeout ends
\* with a raised error and no value, and the class of that error is neither
\* ServerError, nor a base class of it, nor derived from it.
C22_TimeoutIsNotServerError ==
    TimedOut
        => /\ outcome.kind = "raise"
           /\ outcome.value = "-"
           /\ outcome.exc # "ServerError"
           /\ outcome.exc # Bases["ServerError"]
           /\ outcome.exc \in DOMAIN Bases => Bases[outcome.exc] # "ServerError"

C22_Witness ==
    /\ TimedOut
    /\ lastCall.op = "extract"
    /\ client.transport.timeout = DefaultTimeout
    /\ outcome.exc = "httpx.TimeoutException"

\* C23: the status_code of the error raised for a non-2xx response is fixed
\* by the class of the error - 401, 404, 422, 429, and 500 for ServerError
\* whatever status >= 500 was observed - and is the observed status for the
\* catch-all ElephantasmError only.
C23_StatusCodeByKind ==
    (Answered /\ NonSuccess)
        => outcome.status_code =
              (CASE outcome.exc = "AuthenticationError" -> {401}
                 [] outcome.exc = "NotFoundError" -> {404}
                 [] outcome.exc = "ValidationError" -> {422}
                 [] outcome.exc = "RateLimitError" -> {429}
                 [] outcome.exc = "ServerError" -> {500}
                 [] outcome.exc = "ElephantasmError" -> {response.status_code}
                 [] OTHER -> {})

C23_Witness ==
    /\ Answered
    /\ response.status_code = 503
    /\ outcome.exc = "ServerError"
    /\ outcome.status_code = {500}

\* the optional fields of an event the caller of extract can supply
SuppliedFields(call) ==
    {k \in {"session_id", "role", "author"} : call.extras[k] # None}
    \cup (IF call.extras.occurred_at # {} THEN {"occurred_at"} ELSE {})
    \cup (IF call.importance_score # {} THEN {"importance_score"} ELSE {})

\* no key of the JSON object has the value null (event_type is a string of
\* characters, importance_score a number)
NoNullValue(json) ==
    \A k \in DOMAIN json \ {"event_type", "importance_score"} : json[k] # None

\* C24: the body of POST /events has the keys anima_id, event_type, content
\* and meta ({} when the caller gave no meta) and, of session_id, role,
\* author, occurred_at and importance_score, exactly those the caller
\* supplied; the body of POST /animas has name and those of description and
\* meta that were supplied; no key has the value null.
C24_BodyOmitsAbsentFields ==
    /\ (lastCall.op = "extract" /\ sent # NoRequest)
          => /\ DOMAIN sent.json = RequiredFields \cup SuppliedFields(lastCall)
             /\ sent.json.meta = (IF lastCall.meta = None THEN "{}" ELSE lastCall.meta)
             /\ sent.json.content = Content
             /\ \A k \in {"session_id", "role", "author"} \cap DOMAIN sent.json :
                    sent.json[k] = lastCall.extras[k]
             /\ "importance_score" \in DOMAIN sent.json
                    => lastCall.importance_score = {sent.json.importance_score}
             /\ NoNullValue(sent.json)
    /\ (lastCall.op = "create_anima" /\ sent # NoRequest)
          => /\ DOMAIN sent.json =
                    {"name"}
                    \cup (IF lastCall.description # None THEN {"description"} ELSE {})
                    \cup (IF lastCall.meta # None THEN {"meta"} ELSE {})
             /\ NoNullValue(sent.json)

C24_Witness ==
    /\ lastCall.op = "extract"
    /\ lastCall.extras.role = ""
    /\ lastCall.meta = None
    /\ lastCall.importance_score = {0}
    /\ DOMAIN sent.json = RequiredFields \cup {"role", "importance_score"}
    /\ sent.json.meta = "{}"

\* the names of the query parameters of a request
ParamNames(request) == {p[1] : p \in request.params}

\* C25: the request inject issues is a GET of /animas/{id}/memory-packs/latest
\* for the effective anima id; it has the parameter `query` exactly when the
\* caller supplied a query (with that value) and the parameter `preset`
\* exactly when the caller supplied a preset, and no other parameter.
C25_ParamsExactlyWhenSupplied ==
    (lastCall.op = "inject" /\ sent # NoRequest)
        => /\ sent.method = "GET"
           /\ sent.url = MemoryPackUrl(EffectiveAnimaId(lastCall))
           /\ ParamNames(sent) \subseteq {"query", "preset"}
           /\ ("query" \in ParamNames(sent)) <=> (lastCall.query # None)
           /\ ("preset" \in ParamNames(sent)) <=> (lastCall.preset # None)
           /\ \A q \in sent.params :
                  q[2] = (IF q[1] = "query" THEN lastCall.query ELSE lastCall.preset)

\* the configuration of a client: what __init__ fixed
Configuration(self) ==
    [api_key |-> self.api_key, endpoint |-> self.endpoint,
     timeout |-> self.timeout, anima_id |-> self.anima_id,
     transport |-> self.transport]

\* C26: no step taken with a constructed client (a call of create_anima,
\* inject or extract with or without an explicit anima_id, its local failure,
\* its answer, its timeout) changes the client's api key, endpoint, timeout
\* or default anima id, nor the transport built from them.
C26_OperationsKeepConfiguration ==
    [][client.state = "open" => Configuration(client') = Configuration(client)]_vars

C26_Witness ==
    /\ calls = 2
    /\ pc = "idle"
    /\ lastCall.op = "extract"
    /\ lastCall.anima_id = UuidA
    /\ outcome = Return("Event")
    /\ client.anima_id = UuidB

\* C27: when several threads call the module-level functions while no default
\* client exists, one default client is constructed, and the calls all use
\* that instance.
C27_OneClientAcrossThreads ==
    /\ constructed <= 1
    /\ \A t, u \in Threads :
          (threads[t].pc = "using" /\ threads[u].pc = "using")
              => threads[t].local = threads[u].local

====
